---- MODULE Spec2Model ----
(***************************************************************************)
(* platform_ds_toolkit: the local secret-persistence subsystem.            *)
(*                                                                         *)
(*   credentials/credentials_store.py  CredentialStore, a JSON file of     *)
(*                                     credential records                  *)
(*   vault 2.py                        CredentialVault, a Fernet-encrypted *)
(*                                     document of secrets                 *)
(*   credentials/key_manager.py        generate_key / load_key             *)
(*   models/store.py                   ModelStore, a directory of model    *)
(*                                     versions                            *)
(*                                                                         *)
(* Files are modelled by their content.  A JSON text is the value it       *)
(* serialises together with the number of chunks of the serialisation that *)
(* are in the file, so that a text being written in place, or cut short by *)
(* a crash, is a state of its own.                                         *)
(***************************************************************************)
EXTENDS Integers, Sequences, FiniteSets, TLC

VARIABLES
    file,         \* content of the store's backing file (self.path)
    auto_create,  \* StoreConfig.auto_create of the store instance
    clock,        \* what time.time() returns
    last,         \* the call made by the last step, and its outcome
    pc,           \* per process: where it stands inside a store call
    loc,          \* per process: the locals of the write it is in
    tmp,          \* per process: the temporary file mkstemp gave it
    seen,         \* what a concurrent reader last read from the file
    vault,        \* content of the vault file (self.vault_path)
    fernet,       \* the key the vault instance loaded (self.fernet)
    vlast,        \* the vault or key call made by the last step, and its outcome
    saved,        \* per vault path: the secrets of the last successful save
    vseen,        \* what a concurrent reader last read from the vault file
    keyfile,      \* content of the master key file (key_path)
    kpc,          \* per process: where it stands inside generate_key
    mstore,       \* the directories and files under the ModelStore root
    read_only,    \* ModelStore.read_only
    mlast         \* the ModelStore call made by the last step, and its outcome

storeVars == <<file, auto_create, clock, last>>

stepVars == <<pc, loc, tmp, seen>>

vaultVars == <<vault, fernet, vlast, saved, vseen>>

keyVars == <<keyfile, kpc>>

modelVars == <<mstore, read_only, mlast>>

vars == <<file, auto_create, clock, last, pc, loc, tmp, seen,
          vault, fernet, vlast, saved, vseen, keyfile, kpc,
          mstore, read_only, mlast>>

(***************************************************************************)
(* Bounds of the model.                                                    *)
(***************************************************************************)
\* The clock takes the values 0..MaxTime.
MaxTime == 1
\* A serialised document is written in FullLen chunks.
FullLen == 2
\* The ModelStore root holds at most MaxVersions version directories.
MaxVersions == 11

Keys == {"k1", "k2"}
\* Keys in lexicographic order, for sorted().
KeyOrder == <<"k1", "k2">>

(***************************************************************************)
(* Python values.  A dict is a function from its keys; the empty dict is   *)
(* the empty function.  PyInt1 stands for the int key 1 of a Python dict,  *)
(* which json.dumps writes as the string "1"; PyObject stands for a value  *)
(* json.dumps raises TypeError on (a set, an object).                      *)
(***************************************************************************)
EmptyObj == <<>>

PyInt1 == "int:1"

PyObject == "<object>"

Put(d, k, v) == [n \in DOMAIN d \cup {k} |-> IF n = k THEN v ELSE d[n]]

\* A delete that removes nothing.
Del_Nothing(d, k) == d

\* del d[k]
Del(d, k) == [n \in DOMAIN d \ {k} |-> d[n]]

\* dict.setdefault(k, v)
SetDefault(d, k, v) == IF k \in DOMAIN d THEN d ELSE Put(d, k, v)

\* A patch that replaces the fields instead of merging into them.
PyUpdate_Replace(d, patch) == patch

\* dict.update(patch)
PyUpdate(d, patch) ==
    [n \in DOMAIN d \cup DOMAIN patch |-> IF n \in DOMAIN patch THEN patch[n] ELSE d[n]]

\* The fields a caller passes: dicts with string keys, a dict with an int
\* key, a dict holding a value that is not JSON-serializable.
FieldInputs ==
    { [a |-> "x"], [a |-> "y", b |-> "y"],
      [n \in {PyInt1} |-> "x"],
      [a |-> PyObject] }

\* An argument as passed: a dict, or something that is not a dict.
PyArgs ==
    {[isdict |-> TRUE, d |-> f] : f \in FieldInputs}
        \cup {[isdict |-> FALSE, d |-> EmptyObj]}

None == [none |-> TRUE]

(***************************************************************************)
(* json.dumps / json.loads.                                                *)
(***************************************************************************)
\* The key json.dumps writes for a dict key: str(1) for the int 1.
JsonKey(k) == IF k = PyInt1 THEN "1" ELSE k

\* json.dumps(d) raises TypeError on a value it cannot serialise.
Serializable(d) == \A k \in DOMAIN d : d[k] # PyObject

\* json.dumps(d, sort_keys=True) raises TypeError when it has to order an
\* int key and a str key.
MixedKeys(d) == PyInt1 \in DOMAIN d /\ \E k \in DOMAIN d : k # PyInt1

\* json.loads(json.dumps(d)) of a dict: the keys become strings.
JsonOf(d) ==
    [n \in {JsonKey(k) : k \in DOMAIN d} |->
        d[CHOOSE k \in DOMAIN d : JsonKey(k) = n]]

\* The store document as json.loads reads back what json.dumps wrote.
JsonDoc(data) ==
    [data EXCEPT !["credentials"] =
        [k \in DOMAIN @ |-> [@[k] EXCEPT !["fields"] = JsonOf(@)]]]

SortKeysFails(data) ==
    \E k \in DOMAIN data["credentials"] : MixedKeys(data["credentials"][k]["fields"])

(***************************************************************************)
(* File contents.                                                          *)
(*   absent     no file at the path                                        *)
(*   blank      an empty (or whitespace-only) file                         *)
(*   object     the first len of the FullLen chunks of the JSON text of    *)
(*              the object doc                                             *)
(*   rootlist   a JSON text whose root is not an object                    *)
(*   credslist  a JSON object whose "credentials" is not an object         *)
(*   notjson    text that is not JSON                                      *)
(*   notutf8    bytes that are not UTF-8                                   *)
(***************************************************************************)
Absent == [shape |-> "absent", doc |-> EmptyObj, len |-> 0]

Blank == [shape |-> "blank", doc |-> EmptyObj, len |-> 0]

\* The first n chunks of the JSON text of doc.
Prefix(doc, n) == IF n = 0 THEN Blank ELSE [shape |-> "object", doc |-> doc, len |-> n]

FullText(doc) == Prefix(doc, FullLen)

Exists(f) == f.shape # "absent"

\* A text cut short: some, not all, of its chunks.
Partial(f) == f.shape = "object" /\ f.len < FullLen

Ok(data) == [err |-> "", data |-> data]

Fail(e) == [err |-> e, data |-> EmptyObj]

\* {"_meta": {"created_at": now}, "credentials": {}}
InitialDocument(now) ==
    [n \in {"_meta", "credentials"} |->
        IF n = "_meta" THEN [created_at |-> now] ELSE EmptyObj]

\* An _ensure_file_exists without the exists() check.
EnsureFileExists_Always(f, now) == FullText(InitialDocument(now))

\* _ensure_file_exists(path) run to its end: the file afterwards.
EnsureFileExists(f, now) ==
    IF ~Exists(f) THEN FullText(InitialDocument(now)) ELSE f

\* A parser that takes a text cut short for the whole text.
JsonDecodeFails_Lenient(f) == f.shape = "notjson"

\* json.loads(raw) raises JSONDecodeError.
JsonDecodeFails(f) == f.shape = "notjson" \/ Partial(f)

\* _load_json(path) of an existing file.
LoadJson(f) ==
    IF f.shape = "notutf8" THEN Fail("UnicodeDecodeError")
    ELSE IF f.shape = "blank" THEN
        Ok(SetDefault(SetDefault(EmptyObj, "_meta", EmptyObj), "credentials", EmptyObj))
    ELSE IF JsonDecodeFails(f) THEN Fail("CorruptStoreError")
    ELSE IF f.shape = "rootlist" THEN Fail("CorruptStoreError")
    ELSE IF f.shape = "credslist" THEN Fail("CorruptStoreError")
    ELSE Ok(SetDefault(SetDefault(f.doc, "_meta", EmptyObj), "credentials", EmptyObj))

\* _atomic_write_json(path, data) run to its end: the file afterwards.  The
\* payload is serialised before the temporary file is made, so a TypeError
\* there leaves the directory as it was.
AtomicWriteJson(f, data) ==
    IF SortKeysFails(data) THEN [file |-> f, err |-> "TypeError"]
    ELSE [file |-> FullText(JsonDoc(data)), err |-> ""]

(***************************************************************************)
(* CredentialStore.  Each operation maps the file (f), the instance's      *)
(* auto_create (auto) and the time (now) to the file afterwards, the       *)
(* exception raised ("" for none) and the value returned.                  *)
(***************************************************************************)
Result(f, e, r) == [file |-> f, err |-> e, ret |-> r]

\* What a mutating call does up to its write: the file after its read, and
\* either the exception or early return (write FALSE) or the document it
\* hands to _write_store (write TRUE).
Stop(f, e) == [file |-> f, err |-> e, write |-> FALSE, data |-> EmptyObj]

Write(f, data) == [file |-> f, err |-> "", write |-> TRUE, data |-> data]

\* A _read_store that creates the file whatever auto_create says.
ReadStore_AlwaysCreate(f, auto, now) ==
    LET g == EnsureFileExists(f, now) IN [file |-> g, res |-> LoadJson(g)]

\* CredentialStore._read_store
ReadStore(f, auto, now) ==
    IF ~Exists(f)
    THEN IF auto
         THEN LET g == EnsureFileExists(f, now) IN [file |-> g, res |-> LoadJson(g)]
         ELSE [file |-> f, res |-> Fail("FileNotFoundError")]
    ELSE [file |-> f, res |-> LoadJson(f)]

\* sorted(keys)
Sorted(S) == SelectSeq(KeyOrder, LAMBDA k : k \in S)

ListKeys(f, auto, now) ==
    LET rs == ReadStore(f, auto, now) IN
    IF rs.res.err # "" THEN Result(rs.file, rs.res.err, None)
    ELSE Result(rs.file, "", Sorted(DOMAIN rs.res.data["credentials"]))

Has(f, auto, now, key) ==
    LET rs == ReadStore(f, auto, now) IN
    IF rs.res.err # "" THEN Result(rs.file, rs.res.err, None)
    ELSE Result(rs.file, "", key \in DOMAIN rs.res.data["credentials"])

Get(f, auto, now, key) ==
    LET rs == ReadStore(f, auto, now) IN
    IF rs.res.err # "" THEN Result(rs.file, rs.res.err, None)
    ELSE LET creds == rs.res.data["credentials"] IN
         IF key \notin DOMAIN creds THEN Result(rs.file, "", None)
         ELSE Result(rs.file, "", creds[key])

\* A require that hands back get's None instead of raising.
Require_Lenient(f, auto, now, key) == Get(f, auto, now, key)

Require(f, auto, now, key) ==
    LET g == Get(f, auto, now, key) IN
    IF g.err # "" THEN g
    ELSE IF g.ret = None THEN Result(g.file, "CredentialNotFoundError", None)
    ELSE g

\* An upsert that never refuses.
MustRefuse_Never(creds, key, overwrite) == FALSE

\* upsert: "if key in creds and not overwrite"
MustRefuse(creds, key, overwrite) == key \in DOMAIN creds /\ ~overwrite

\* An upsert that stamps created_at anew.
CreatedAt_Now(existing, now) == now

\* upsert: existing.get("created_at", now)
CreatedAt(existing, now) ==
    IF "created_at" \in DOMAIN existing THEN existing["created_at"] ELSE now

\* upsert, up to self._write_store(store)
UpsertPlan(f, auto, now, key, arg, overwrite) ==
    IF ~arg.isdict THEN Stop(f, "ValueError")
    ELSE
    LET rs == ReadStore(f, auto, now) IN
    IF rs.res.err # "" THEN Stop(rs.file, rs.res.err)
    ELSE
    LET store == rs.res.data
        creds == store["credentials"]
    IN
    IF MustRefuse(creds, key, overwrite) THEN Stop(rs.file, "CredentialExistsError")
    ELSE
    LET existing == IF key \in DOMAIN creds THEN creds[key] ELSE EmptyObj
        record == [created_at |-> CreatedAt(existing, now),
                   updated_at |-> now,
                   fields |-> arg.d]
    IN
    IF ~Serializable(arg.d) THEN Stop(rs.file, "ValueError")
    ELSE Write(rs.file, [store EXCEPT !["credentials"] = Put(creds, key, record),
                                      !["_meta"] = Put(@, "updated_at", now)])

Upsert(f, auto, now, key, arg, overwrite) ==
    LET p == UpsertPlan(f, auto, now, key, arg, overwrite) IN
    IF ~p.write THEN Result(p.file, p.err, None)
    ELSE LET w == AtomicWriteJson(p.file, p.data) IN
         IF w.err # "" THEN Result(w.file, w.err, None)
         ELSE Get(w.file, auto, now, key)

\* delete, up to self._write_store(store)
DeletePlan(f, auto, now, key, missing_ok) ==
    LET rs == ReadStore(f, auto, now) IN
    IF rs.res.err # "" THEN Stop(rs.file, rs.res.err)
    ELSE
    LET store == rs.res.data
        creds == store["credentials"]
    IN
    IF key \notin DOMAIN creds
    THEN IF missing_ok THEN Stop(rs.file, "")
         ELSE Stop(rs.file, "CredentialNotFoundError")
    ELSE Write(rs.file, [store EXCEPT !["credentials"] = Del(creds, key),
                                      !["_meta"] = Put(@, "updated_at", now)])

Delete(f, auto, now, key, missing_ok) ==
    LET p == DeletePlan(f, auto, now, key, missing_ok) IN
    IF ~p.write THEN Result(p.file, p.err, None)
    ELSE LET w == AtomicWriteJson(p.file, p.data) IN Result(w.file, w.err, None)

\* update_fields, up to the write of the upsert it ends in
UpdateFieldsPlan(f, auto, now, key, patch) ==
    LET rq == Require(f, auto, now, key) IN
    IF rq.err # "" THEN Stop(rq.file, rq.err)
    ELSE
    LET rec == rq.ret
        fields == IF "fields" \in DOMAIN rec THEN rec["fields"] ELSE EmptyObj
    IN UpsertPlan(rq.file, auto, now, key,
                  [isdict |-> TRUE, d |-> PyUpdate(fields, patch)], TRUE)

UpdateFields(f, auto, now, key, patch) ==
    LET p == UpdateFieldsPlan(f, auto, now, key, patch) IN
    IF ~p.write THEN Result(p.file, p.err, None)
    ELSE LET w == AtomicWriteJson(p.file, p.data) IN
         IF w.err # "" THEN Result(w.file, w.err, None)
         ELSE Get(w.file, auto, now, key)

(***************************************************************************)
(* The store used by one process, one call after the other.                *)
(***************************************************************************)
NoArg == [isdict |-> FALSE, d |-> EmptyObj]

Event(op, key, arg, flag, err, ret) ==
    [op |-> op, key |-> key, arg |-> arg, flag |-> flag, err |-> err, ret |-> ret]

Call(op, key, arg, flag, r) ==
    /\ file' = r.file
    /\ last' = Event(op, key, arg, flag, r.err, r.ret)
    /\ UNCHANGED <<auto_create, clock, stepVars, vaultVars, keyVars, modelVars>>

DoEnsureExists ==
    Call("ensure_exists", "", NoArg, FALSE,
         Result(EnsureFileExists(file, clock), "", None))

DoListKeys == Call("list_keys", "", NoArg, FALSE, ListKeys(file, auto_create, clock))

DoHas(key) == Call("has", key, NoArg, FALSE, Has(file, auto_create, clock, key))

DoGet(key) == Call("get", key, NoArg, FALSE, Get(file, auto_create, clock, key))

DoRequire(key) ==
    Call("require", key, NoArg, FALSE, Require(file, auto_create, clock, key))

DoUpsert(key, arg, overwrite) ==
    Call("upsert", key, arg, overwrite,
         Upsert(file, auto_create, clock, key, arg, overwrite))

DoDelete(key, missing_ok) ==
    Call("delete", key, NoArg, missing_ok,
         Delete(file, auto_create, clock, key, missing_ok))

DoUpdateFields(key, patch) ==
    Call("update_fields", key, [isdict |-> TRUE, d |-> patch], FALSE,
         UpdateFields(file, auto_create, clock, key, patch))

\* time.time() moves on.
Tick ==
    /\ clock < MaxTime
    /\ clock' = clock + 1
    /\ last' = Event("tick", "", NoArg, FALSE, "", None)
    /\ UNCHANGED <<file, auto_create, stepVars, vaultVars, keyVars, modelVars>>

(***************************************************************************)
(* Processes, for the specifications that follow a call step by step.      *)
(***************************************************************************)
Writers == {"w1"}

NoLoc == [writer |-> "none", payload |-> EmptyObj, before |-> Absent,
          written |-> 0, replaced |-> FALSE, failed |-> FALSE]

StepsIdle ==
    /\ pc = [p \in Writers |-> "idle"]
    /\ loc = [p \in Writers |-> NoLoc]
    /\ tmp = [p \in Writers |-> Absent]
    /\ seen = Absent

(***************************************************************************)
(* The vault at rest: no vault file, no call made.                         *)
(***************************************************************************)
NoVault == [shape |-> "absent", key |-> "", plain |-> EmptyObj, state |-> "intact"]

\* arg: the metadata passed to save_credentials.
VEvent(op, path, err, ret) ==
    [op |-> op, path |-> path, arg |-> None, err |-> err, ret |-> ret]

VaultIdle ==
    /\ vault = NoVault
    /\ fernet = "keyA"
    /\ vlast = VEvent("init", "", "", None)
    /\ saved = EmptyObj
    /\ vseen = NoVault

(***************************************************************************)
(* The key file: absent, or the first len of the FullLen chunks of the     *)
(* bytes of a key.  No process is inside generate_key.                     *)
(***************************************************************************)
NoKey == [shape |-> "absent", key |-> "", len |-> 0]

KeyProcs == {"g1", "g2"}

KeyProcIdle == [stage |-> "start", key |-> "", written |-> 0, out |-> ""]

KeyIdle ==
    /\ keyfile = NoKey
    /\ kpc = [p \in KeyProcs |-> KeyProcIdle]

(***************************************************************************)
(* The ModelStore root: not made yet, no call made.                        *)
(***************************************************************************)
NoModels == [root |-> FALSE, dirs |-> EmptyObj]

\* version: the version argument of the call, as the sequence of its
\* characters (<<>> for none).
MEvent(op, name, err, ret) ==
    [op |-> op, name |-> name, version |-> <<>>, err |-> err, ret |-> ret]

ModelsIdle ==
    /\ mstore = NoModels
    /\ read_only = FALSE
    /\ mlast = MEvent("init", "", "", None)

(***************************************************************************)
(* Spec: one process, the default configuration (auto_create), nothing     *)
(* else touching the file.  CredentialStore.__init__ has run and made the  *)
(* file.                                                                   *)
(***************************************************************************)
Init ==
    /\ auto_create = TRUE
    /\ clock = 0
    /\ file = EnsureFileExists(Absent, 0)
    /\ last = Event("init", "", NoArg, FALSE, "", None)
    /\ StepsIdle
    /\ VaultIdle
    /\ KeyIdle
    /\ ModelsIdle

Next ==
    \/ Tick
    \/ DoEnsureExists
    \/ DoListKeys
    \/ \E key \in Keys : DoHas(key)
    \/ \E key \in Keys : DoGet(key)
    \/ \E key \in Keys : DoRequire(key)
    \/ \E key \in Keys, arg \in PyArgs, overwrite \in BOOLEAN : DoUpsert(key, arg, overwrite)
    \/ \E key \in Keys, missing_ok \in BOOLEAN : DoDelete(key, missing_ok)
    \/ \E key \in Keys, patch \in FieldInputs : DoUpdateFields(key, patch)

Spec == Init /\ [][Next]_vars

(***************************************************************************)
(* SpecEnv: the same process, either configuration, and an environment     *)
(* that removes the file or puts other content in it between calls.        *)
(***************************************************************************)
EnvKeys == {"k1"}

EnvArgs ==
    { [isdict |-> TRUE, d |-> [a |-> "x"]],
      [isdict |-> TRUE, d |-> [a |-> PyObject]],
      [isdict |-> FALSE, d |-> EmptyObj] }

EnvPatches == { [b |-> "y"] }

\* What something outside the store can leave in the file.
ExternalContents(f) ==
    { Blank,
      [shape |-> "notjson", doc |-> EmptyObj, len |-> FullLen],
      [shape |-> "notutf8", doc |-> EmptyObj, len |-> FullLen],
      [shape |-> "rootlist", doc |-> EmptyObj, len |-> FullLen],
      [shape |-> "credslist", doc |-> EmptyObj, len |-> FullLen],
      FullText(EmptyObj) }
        \cup (IF f.shape = "object"
              THEN {Prefix(f.doc, n) : n \in 1..(FullLen - 1)}
              ELSE {})

EnvRemove ==
    /\ Exists(file)
    /\ file' = Absent
    /\ last' = Event("env", "", NoArg, FALSE, "", None)
    /\ UNCHANGED <<auto_create, clock, stepVars, vaultVars, keyVars, modelVars>>

EnvTamper ==
    /\ \E c \in ExternalContents(file) : file' = c
    /\ last' = Event("env", "", NoArg, FALSE, "", None)
    /\ UNCHANGED <<auto_create, clock, stepVars, vaultVars, keyVars, modelVars>>

InitEnv ==
    /\ auto_create \in BOOLEAN
    /\ clock = 0
    /\ file = EnsureFileExists(Absent, 0)
    /\ last = Event("init", "", NoArg, FALSE, "", None)
    /\ StepsIdle
    /\ VaultIdle
    /\ KeyIdle
    /\ ModelsIdle

NextEnv ==
    \/ Tick
    \/ EnvRemove
    \/ EnvTamper
    \/ DoEnsureExists
    \/ DoListKeys
    \/ \E key \in EnvKeys : DoHas(key)
    \/ \E key \in EnvKeys : DoGet(key)
    \/ \E key \in EnvKeys : DoRequire(key)
    \/ \E key \in EnvKeys, arg \in EnvArgs, overwrite \in BOOLEAN :
            DoUpsert(key, arg, overwrite)
    \/ \E key \in EnvKeys, missing_ok \in BOOLEAN : DoDelete(key, missing_ok)
    \/ \E key \in EnvKeys, patch \in EnvPatches : DoUpdateFields(key, patch)

SpecEnv == InitEnv /\ [][NextEnv]_vars

(***************************************************************************)
(* SpecConfig: SpecEnv, and the process also constructs the store anew,    *)
(* with either auto_create, whatever the file is at that time.             *)
(***************************************************************************)
\* CredentialStore.__init__(StoreConfig(path, auto)): the file afterwards
\* and the exception raised.
StoreInit(f, auto, now) ==
    IF auto THEN Result(EnsureFileExists(f, now), "", None)
    ELSE IF ~Exists(f) THEN Result(f, "FileNotFoundError", None)
    ELSE Result(f, "", None)

\* store = CredentialStore(StoreConfig(path, auto)): the new instance takes
\* the place of the one before, unless the constructor raises.  The flag of
\* the event is the auto_create asked for.
DoStoreInit(auto) ==
    LET r == StoreInit(file, auto, clock) IN
    /\ file' = r.file
    /\ auto_create' = IF r.err = "" THEN auto ELSE auto_create
    /\ last' = Event("init", "", NoArg, auto, r.err, None)
    /\ UNCHANGED <<clock, stepVars, vaultVars, keyVars, modelVars>>

InitConfig == InitEnv

NextConfig ==
    \/ Tick
    \/ EnvRemove
    \/ EnvTamper
    \/ \E auto \in BOOLEAN : DoStoreInit(auto)
    \/ DoEnsureExists
    \/ DoListKeys
    \/ \E key \in EnvKeys : DoHas(key)
    \/ \E key \in EnvKeys : DoGet(key)
    \/ \E key \in EnvKeys : DoRequire(key)
    \/ \E key \in EnvKeys, arg \in EnvArgs, overwrite \in BOOLEAN :
            DoUpsert(key, arg, overwrite)
    \/ \E key \in EnvKeys, missing_ok \in BOOLEAN : DoDelete(key, missing_ok)
    \/ \E key \in EnvKeys, patch \in EnvPatches : DoUpdateFields(key, patch)

SpecConfig == InitConfig /\ [][NextConfig]_vars

(***************************************************************************)
(* SpecSteps: a process that constructs the store and calls it, followed   *)
(* system call by system call, next to a process that reads the file.  A   *)
(* write can fail with an OSError, and the process can be killed at any    *)
(* point; a killed process is started again and constructs the store anew. *)
(*                                                                         *)
(*   new          CredentialStore.__init__ not yet run                     *)
(*   ens_open     _ensure_file_exists found no file; before write_text     *)
(*                opens it                                                 *)
(*   ens_write    write_text has opened (created, emptied) the file and    *)
(*                is writing                                               *)
(*   idle         between two calls                                        *)
(*   aw_mkstemp   _atomic_write_json has the payload; before mkstemp       *)
(*   aw_write     writing the temporary file                               *)
(*   aw_fsync     before flush and fsync                                   *)
(*   aw_replace   before os.replace                                        *)
(*   aw_cleanup   in the finally block                                     *)
(*   crashed      killed                                                   *)
(***************************************************************************)
StepKeys == {"k1", "k2"}

StepFields == { [a |-> "x"] }

StepPatches == { [b |-> "y"] }

AwStages == {"aw_mkstemp", "aw_write", "aw_fsync", "aw_replace", "aw_cleanup"}

Goto(p, stage) == pc' = [pc EXCEPT ![p] = stage]

\* __init__ (auto_create) or ensure_exists(): "if not path.exists()"
BeginEnsure(p) ==
    /\ pc[p] \in {"new", "idle"}
    /\ IF Exists(file)
       THEN Goto(p, "idle") /\ loc' = [loc EXCEPT ![p] = NoLoc]
       ELSE /\ Goto(p, "ens_open")
            /\ loc' = [loc EXCEPT ![p] =
                    [NoLoc EXCEPT !.writer = "ensure",
                                  !.payload = InitialDocument(clock),
                                  !.before = file]]
    /\ UNCHANGED <<file, tmp, seen, storeVars, vaultVars, keyVars, modelVars>>

\* path.write_text(...): open(path, "w") makes the file, or empties it.
EnsOpen(p) ==
    /\ pc[p] = "ens_open"
    /\ file' = Blank
    /\ Goto(p, "ens_write")
    /\ UNCHANGED <<loc, tmp, seen, auto_create, clock, last, vaultVars, keyVars, modelVars>>

\* path.write_text(...): the text reaches the file, in one write or several.
EnsWrite(p) ==
    /\ pc[p] = "ens_write"
    /\ \E n \in (loc[p].written + 1)..FullLen :
        /\ file' = Prefix(loc[p].payload, n)
        /\ loc' = [loc EXCEPT ![p].written = n]
        /\ Goto(p, IF n = FullLen THEN "idle" ELSE "ens_write")
    /\ UNCHANGED <<tmp, seen, auto_create, clock, last, vaultVars, keyVars, modelVars>>

\* A mutating call up to _atomic_write_json's json.dumps: it returns or
\* raises there, or goes on to write plan.data.
Begin(p, plan) ==
    /\ pc[p] = "idle"
    /\ file' = plan.file
    /\ IF plan.write /\ ~SortKeysFails(plan.data)
       THEN /\ Goto(p, "aw_mkstemp")
            /\ loc' = [loc EXCEPT ![p] =
                    [NoLoc EXCEPT !.writer = "atomic",
                                  !.payload = JsonDoc(plan.data),
                                  !.before = plan.file]]
       ELSE Goto(p, "idle") /\ loc' = [loc EXCEPT ![p] = NoLoc]
    /\ UNCHANGED <<tmp, seen, auto_create, clock, last, vaultVars, keyVars, modelVars>>

BeginUpsert(p, key, fields) ==
    Begin(p, UpsertPlan(file, auto_create, clock, key,
                        [isdict |-> TRUE, d |-> fields], TRUE))

BeginDelete(p, key) == Begin(p, DeletePlan(file, auto_create, clock, key, FALSE))

BeginUpdateFields(p, key, patch) ==
    Begin(p, UpdateFieldsPlan(file, auto_create, clock, key, patch))

\* tempfile.mkstemp(dir=path.parent): a new, empty file of its own name.
AwMkstemp(p) ==
    /\ pc[p] = "aw_mkstemp"
    /\ tmp' = [tmp EXCEPT ![p] = Blank]
    /\ Goto(p, "aw_write")
    /\ UNCHANGED <<file, loc, seen, storeVars, vaultVars, keyVars, modelVars>>

\* A writer that writes the payload into path itself.
PathAfterTmpWrite_InPlace(f, payload, n) == Prefix(payload, n)

\* What path holds after n chunks of the payload went to the descriptor
\* mkstemp returned: the temporary file is another file.
PathAfterTmpWrite(f, payload, n) == f

\* f.write(payload)
AwWrite(p) ==
    /\ pc[p] = "aw_write"
    /\ \E n \in (loc[p].written + 1)..FullLen :
        /\ tmp' = [tmp EXCEPT ![p] = Prefix(loc[p].payload, n)]
        /\ file' = PathAfterTmpWrite(file, loc[p].payload, n)
        /\ loc' = [loc EXCEPT ![p].written = n]
        /\ Goto(p, IF n = FullLen THEN "aw_fsync" ELSE "aw_write")
    /\ UNCHANGED <<seen, auto_create, clock, last, vaultVars, keyVars, modelVars>>

\* f.flush(); os.fsync(f.fileno())
AwFsync(p) ==
    /\ pc[p] = "aw_fsync"
    /\ Goto(p, "aw_replace")
    /\ UNCHANGED <<file, loc, tmp, seen, storeVars, vaultVars, keyVars, modelVars>>

\* os.replace(tmp_name, path)
AwReplace(p) ==
    /\ pc[p] = "aw_replace"
    /\ file' = tmp[p]
    /\ tmp' = [tmp EXCEPT ![p] = Absent]
    /\ loc' = [loc EXCEPT ![p].replaced = TRUE]
    /\ Goto(p, "aw_cleanup")
    /\ UNCHANGED <<seen, auto_create, clock, last, vaultVars, keyVars, modelVars>>

\* finally: if os.path.exists(tmp_name): os.remove(tmp_name)
AwCleanup(p) ==
    /\ pc[p] = "aw_cleanup"
    /\ tmp' = [tmp EXCEPT ![p] = Absent]
    /\ Goto(p, "idle")
    /\ UNCHANGED <<file, loc, seen, storeVars, vaultVars, keyVars, modelVars>>

\* write, fsync or replace raises OSError: on to the finally block.
AwOSError(p) ==
    /\ pc[p] \in {"aw_write", "aw_fsync", "aw_replace"}
    /\ loc' = [loc EXCEPT ![p].failed = TRUE]
    /\ Goto(p, "aw_cleanup")
    /\ UNCHANGED <<file, tmp, seen, storeVars, vaultVars, keyVars, modelVars>>

\* The process is killed: nothing of it runs any more, its files stay.  The
\* process started in its place (Restart) knows nothing of the temporary
\* file left behind, which is followed no further.
Crash(p) ==
    /\ pc[p] \notin {"new", "idle", "crashed"}
    /\ Goto(p, "crashed")
    /\ UNCHANGED <<file, loc, tmp, seen, storeVars, vaultVars, keyVars, modelVars>>

Restart(p) ==
    /\ pc[p] = "crashed"
    /\ Goto(p, "new")
    /\ loc' = [loc EXCEPT ![p] = NoLoc]
    /\ tmp' = [tmp EXCEPT ![p] = Absent]
    /\ UNCHANGED <<file, seen, storeVars, vaultVars, keyVars, modelVars>>

\* What a read of the whole file shows of it: whether there is a file, and
\* how much of a text is in it.
Observed(f) == [f EXCEPT !.doc = EmptyObj]

\* Another process reads the file.
ReaderRead ==
    /\ seen' = Observed(file)
    /\ UNCHANGED <<file, pc, loc, tmp, storeVars, vaultVars, keyVars, modelVars>>

StepTick ==
    /\ clock < MaxTime
    /\ clock' = clock + 1
    /\ UNCHANGED <<file, auto_create, last, stepVars, vaultVars, keyVars, modelVars>>

InitSteps ==
    /\ auto_create = TRUE
    /\ clock = 0
    /\ file = Absent
    /\ last = Event("init", "", NoArg, FALSE, "", None)
    /\ pc = [p \in Writers |-> "new"]
    /\ loc = [p \in Writers |-> NoLoc]
    /\ tmp = [p \in Writers |-> Absent]
    /\ seen = Absent
    /\ VaultIdle
    /\ KeyIdle
    /\ ModelsIdle

NextSteps ==
    \/ StepTick
    \/ ReaderRead
    \/ \E p \in Writers : BeginEnsure(p)
    \/ \E p \in Writers : EnsOpen(p)
    \/ \E p \in Writers : EnsWrite(p)
    \/ \E p \in Writers, key \in StepKeys, fields \in StepFields : BeginUpsert(p, key, fields)
    \/ \E p \in Writers, key \in StepKeys : BeginDelete(p, key)
    \/ \E p \in Writers, key \in StepKeys, patch \in StepPatches :
            BeginUpdateFields(p, key, patch)
    \/ \E p \in Writers : AwMkstemp(p)
    \/ \E p \in Writers : AwWrite(p)
    \/ \E p \in Writers : AwFsync(p)
    \/ \E p \in Writers : AwReplace(p)
    \/ \E p \in Writers : AwCleanup(p)
    \/ \E p \in Writers : AwOSError(p)
    \/ \E p \in Writers : Crash(p)
    \/ \E p \in Writers : Restart(p)

SpecSteps == InitSteps /\ [][NextSteps]_vars

(***************************************************************************)
(* SpecRace: two processes, each with a store on the same file, each       *)
(* making one mutating call, their system calls interleaved in any order;  *)
(* no write fails and no process is killed.                                *)
(***************************************************************************)
Racers == {"w1", "w2"}

\* The process has made no call yet.
NotStarted(p) == pc[p] = "idle" /\ loc[p].writer = "none"

\* The process's call has returned, its document written.
Returned(p) == pc[p] = "idle" /\ loc[p].writer = "atomic" /\ loc[p].replaced

RaceUpsert(p, key, fields) == NotStarted(p) /\ BeginUpsert(p, key, fields)

RaceDelete(p, key) == NotStarted(p) /\ BeginDelete(p, key)

RaceUpdateFields(p, key, patch) == NotStarted(p) /\ BeginUpdateFields(p, key, patch)

InitRace ==
    /\ auto_create = TRUE
    /\ clock = 0
    /\ file = EnsureFileExists(Absent, 0)
    /\ last = Event("init", "", NoArg, FALSE, "", None)
    /\ pc = [p \in Racers |-> "idle"]
    /\ loc = [p \in Racers |-> NoLoc]
    /\ tmp = [p \in Racers |-> Absent]
    /\ seen = Absent
    /\ VaultIdle
    /\ KeyIdle
    /\ ModelsIdle

NextRace ==
    \/ StepTick
    \/ ReaderRead
    \/ \E p \in Racers, key \in StepKeys, fields \in StepFields : RaceUpsert(p, key, fields)
    \/ \E p \in Racers, key \in StepKeys : RaceDelete(p, key)
    \/ \E p \in Racers, key \in StepKeys, patch \in StepPatches :
            RaceUpdateFields(p, key, patch)
    \/ \E p \in Racers : AwMkstemp(p)
    \/ \E p \in Racers : AwWrite(p)
    \/ \E p \in Racers : AwFsync(p)
    \/ \E p \in Racers : AwReplace(p)
    \/ \E p \in Racers : AwCleanup(p)

SpecRace == InitRace /\ [][NextRace]_vars

(***************************************************************************)
(* CredentialVault.  A Fernet token is modelled by the key it was made     *)
(* with, the plaintext it carries and whether its bytes are still those    *)
(* encrypt() returned; decrypt() checks the token's HMAC under its key and *)
(* raises InvalidToken unless both match.                                  *)
(***************************************************************************)
VaultKeys == {"keyA", "keyB"}

VaultPaths == {"p1", "p2"}

\* Paths in lexicographic order, for sorted().
PathOrder == <<"p1", "p2">>

SecretInputs == { [user |-> "u"], [user |-> "v"] }

\* metadata: None (or {}), a field of the caller's, a created_at of the
\* caller's.
MetadataInputs == { EmptyObj, [owner |-> "me"], [created_at |-> 0] }

\* Fernet(k).encrypt(json.dumps(data).encode())
Token(k, data) == [shape |-> "token", key |-> k, plain |-> data, state |-> "intact"]

\* The vault document as json.loads reads back what json.dumps wrote.
JsonVault(data) ==
    [p \in DOMAIN data |->
        [secrets |-> JsonOf(data[p]["secrets"]),
         metadata |-> JsonOf(data[p]["metadata"])]]

\* Fernet(k).decrypt(token), then json.loads
Decrypt(k, token) ==
    IF token.shape = "token" /\ token.key = k /\ token.state = "intact"
    THEN Ok(JsonVault(token.plain))
    ELSE Fail("InvalidToken")

VResult(v, e, r) == [vault |-> v, err |-> e, ret |-> r]

\* A load that takes a token it cannot decrypt for an empty vault.
VaultLoad_EmptyOnFailure(v, k) ==
    IF v.shape = "absent" \/ Decrypt(k, v).err # "" THEN Ok(EmptyObj) ELSE Decrypt(k, v)

\* CredentialVault._load
VaultLoad(v, k) ==
    IF v.shape = "absent" THEN Ok(EmptyObj) ELSE Decrypt(k, v)

\* CredentialVault._write run to its end: the vault file afterwards.
VaultWrite(v, k, data) == Token(k, data)

\* A save that starts from an empty document instead of the loaded one.
SaveCredentials_Fresh(v, k, now, path, secrets, metadata) ==
    LET l == VaultLoad(v, k) IN
    IF l.err # "" THEN VResult(v, l.err, None)
    ELSE LET entry == [secrets |-> secrets,
                       metadata |-> PyUpdate([created_at |-> now], metadata)]
         IN VResult(VaultWrite(v, k, Put(EmptyObj, path, entry)), "", None)

\* CredentialVault.save_credentials
SaveCredentials(v, k, now, path, secrets, metadata) ==
    LET l == VaultLoad(v, k) IN
    IF l.err # "" THEN VResult(v, l.err, None)
    ELSE LET entry == [secrets |-> secrets,
                       metadata |-> PyUpdate([created_at |-> now], metadata)]
         IN VResult(VaultWrite(v, k, Put(l.data, path, entry)), "", None)

LoadCredentials(v, k, path) ==
    LET l == VaultLoad(v, k) IN
    IF l.err # "" THEN VResult(v, l.err, None)
    ELSE IF path \notin DOMAIN l.data THEN VResult(v, "ValueError", None)
    ELSE VResult(v, "", l.data[path]["secrets"])

ListPaths(v, k) ==
    LET l == VaultLoad(v, k) IN
    IF l.err # "" THEN VResult(v, l.err, None)
    ELSE VResult(v, "", SelectSeq(PathOrder, LAMBDA q : q \in DOMAIN l.data))

(***************************************************************************)
(* SpecVault: one vault instance, one call after the other, and an         *)
(* environment that removes, alters, cuts or swaps the vault file between  *)
(* calls.                                                                  *)
(***************************************************************************)
VCall(op, path, arg, r, s) ==
    /\ vault' = r.vault
    /\ vlast' = [VEvent(op, path, r.err, r.ret) EXCEPT !.arg = arg]
    /\ saved' = s
    /\ UNCHANGED <<fernet, clock, file, auto_create, last, stepVars, vseen,
                   keyVars, modelVars>>

DoSaveCredentials(path, secrets, metadata) ==
    LET r == SaveCredentials(vault, fernet, clock, path, secrets, metadata) IN
    VCall("save_credentials", path, metadata, r,
          IF r.err = "" THEN Put(saved, path, secrets) ELSE saved)

DoLoadCredentials(path) ==
    VCall("load_credentials", path, None, LoadCredentials(vault, fernet, path), saved)

DoListPaths == VCall("list_paths", "", None, ListPaths(vault, fernet), saved)

VaultTick ==
    /\ clock < MaxTime
    /\ clock' = clock + 1
    /\ vlast' = VEvent("tick", "", "", None)
    /\ UNCHANGED <<vault, fernet, file, auto_create, last, stepVars, saved, vseen,
                   keyVars, modelVars>>

VEnv(v) ==
    /\ vault' = v
    /\ vlast' = VEvent("env", "", "", None)
    /\ UNCHANGED <<fernet, clock, file, auto_create, last, stepVars, saved, vseen,
                   keyVars, modelVars>>

\* The vault file is deleted.
VaultRemove == vault.shape # "absent" /\ VEnv(NoVault)

\* A bit of the token is flipped.
VaultAlter ==
    /\ vault.shape = "token" /\ vault.state = "intact"
    /\ VEnv([vault EXCEPT !.state = "altered"])

\* The token is cut short (down to nothing).
VaultTruncate ==
    /\ vault.shape = "token" /\ vault.state = "intact"
    /\ VEnv([vault EXCEPT !.state = "truncated"])

\* The file is replaced by the same document encrypted under another key.
VaultRekey ==
    /\ vault.shape = "token" /\ vault.state = "intact"
    /\ \E k \in VaultKeys \ {vault.key} : VEnv([vault EXCEPT !.key = k])

InitVault ==
    /\ auto_create = TRUE
    /\ clock = 0
    /\ file = EnsureFileExists(Absent, 0)
    /\ last = Event("init", "", NoArg, FALSE, "", None)
    /\ StepsIdle
    /\ vault = NoVault
    /\ fernet \in VaultKeys
    /\ vlast = VEvent("init", "", "", None)
    /\ saved = EmptyObj
    /\ vseen = NoVault
    /\ KeyIdle
    /\ ModelsIdle

NextVault ==
    \/ VaultTick
    \/ VaultRemove
    \/ VaultAlter
    \/ VaultTruncate
    \/ VaultRekey
    \/ DoListPaths
    \/ \E path \in VaultPaths : DoLoadCredentials(path)
    \/ \E path \in VaultPaths, secrets \in SecretInputs, metadata \in MetadataInputs :
            DoSaveCredentials(path, secrets, metadata)

SpecVault == InitVault /\ [][NextVault]_vars

(***************************************************************************)
(* key_manager.  The bytes of a key are written to the key file in FullLen *)
(* chunks; Fernet(key) takes the whole key and nothing less.               *)
(***************************************************************************)
KeyFile(k) == [shape |-> "key", key |-> k, len |-> FullLen]

KeyExists(kf) == kf.shape # "absent"

\* key_path.read_bytes()
KeyBytes(kf) == [key |-> kf.key, len |-> kf.len]

KResult(kf, e, r) == [keyfile |-> kf, err |-> e, ret |-> r]

\* A generate_key without the exists() check.
GenerateKey_Overwrite(kf, k) == KResult(KeyFile(k), "", None)

\* generate_key run to its end; k is what Fernet.generate_key() returned.
GenerateKey(kf, k) ==
    IF KeyExists(kf) THEN KResult(kf, "FileExistsError", None)
    ELSE KResult(KeyFile(k), "", None)

\* load_key
LoadKey(kf) ==
    IF ~KeyExists(kf) THEN KResult(kf, "FileNotFoundError", None)
    ELSE KResult(kf, "", KeyBytes(kf))

\* Fernet(key): ValueError unless key is 32 url-safe base64-encoded bytes.
FernetOf(bytes) ==
    IF bytes.len = FullLen THEN Ok(bytes.key) ELSE Fail("ValueError")

\* self.fernet of no instance.
NoInstance == ""

\* CredentialVault.__init__: the key of the new instance, or the error.
VaultInit(kf) ==
    LET l == LoadKey(kf) IN
    IF l.err # "" THEN Fail(l.err) ELSE FernetOf(l.ret)

(***************************************************************************)
(* SpecKeyVault: one process that makes the key, constructs vault          *)
(* instances and calls them, one call after the other; nothing else        *)
(* touches the key file or the vault file.                                 *)
(***************************************************************************)
KCall(op, r) ==
    /\ keyfile' = r.keyfile
    /\ vlast' = VEvent(op, "", r.err, r.ret)
    /\ UNCHANGED <<kpc, vault, fernet, saved, vseen, clock, file, auto_create, last,
                   stepVars, modelVars>>

DoGenerateKey(k) == KCall("generate_key", GenerateKey(keyfile, k))

DoLoadKey == KCall("load_key", LoadKey(keyfile))

\* vault = CredentialVault(): a new instance in place of the one before.
DoVaultInit ==
    LET r == VaultInit(keyfile) IN
    /\ fernet' = IF r.err = "" THEN r.data ELSE fernet
    /\ vlast' = VEvent("init", "", r.err, None)
    /\ UNCHANGED <<keyVars, vault, saved, vseen, clock, file, auto_create, last,
                   stepVars, modelVars>>

HasInstance == fernet # NoInstance

InitKeyVault ==
    /\ auto_create = TRUE
    /\ clock = 0
    /\ file = EnsureFileExists(Absent, 0)
    /\ last = Event("init", "", NoArg, FALSE, "", None)
    /\ StepsIdle
    /\ vault = NoVault
    /\ fernet = NoInstance
    /\ vlast = VEvent("none", "", "", None)
    /\ saved = EmptyObj
    /\ vseen = NoVault
    /\ KeyIdle
    /\ ModelsIdle

NextKeyVault ==
    \/ VaultTick
    \/ \E k \in VaultKeys : DoGenerateKey(k)
    \/ DoLoadKey
    \/ DoVaultInit
    \/ HasInstance /\ DoListPaths
    \/ \E path \in VaultPaths : HasInstance /\ DoLoadCredentials(path)
    \/ \E path \in VaultPaths, secrets \in SecretInputs, metadata \in MetadataInputs :
            HasInstance /\ DoSaveCredentials(path, secrets, metadata)

SpecKeyVault == InitKeyVault /\ [][NextKeyVault]_vars

(***************************************************************************)
(* SpecKeyRace: two processes that each call generate_key once on the same *)
(* key_path, followed system call by system call, next to a process that   *)
(* constructs vault instances and calls them.                              *)
(*                                                                         *)
(*   start      before the call                                            *)
(*   checked    key_path.exists() returned False                           *)
(*   writing    write_bytes opened key_path with mode "wb" (the file is    *)
(*              there and empty); the key is in the buffer                 *)
(*   done       the call returned (out = "ok") or raised (out = the error) *)
(*                                                                         *)
(* Both keys are as long as each other and each is written in one write at *)
(* offset 0 when the file is closed, so a write puts the whole key of its  *)
(* process in the file, whatever was in it.                                *)
(***************************************************************************)
\* key_path after open(key_path, "wb"): there, with nothing in it.
EmptyKeyFile == [shape |-> "key", key |-> "", len |-> 0]

KgStep(p, rec, kf) ==
    /\ kpc' = [kpc EXCEPT ![p] = rec]
    /\ keyfile' = kf
    /\ UNCHANGED <<vaultVars, storeVars, stepVars, modelVars>>

\* mkdir, then: if key_path.exists(): raise FileExistsError
KgCheck(p) ==
    /\ kpc[p].stage = "start"
    /\ IF KeyExists(keyfile)
       THEN KgStep(p, [kpc[p] EXCEPT !.stage = "done", !.out = "FileExistsError"], keyfile)
       ELSE KgStep(p, [kpc[p] EXCEPT !.stage = "checked"], keyfile)

\* Fernet.generate_key(), then write_bytes opens the file, which truncates it.
KgOpen(p, k) ==
    /\ kpc[p].stage = "checked"
    /\ KgStep(p, [kpc[p] EXCEPT !.stage = "writing", !.key = k], EmptyKeyFile)

\* write_bytes writes the key and closes the file; generate_key returns.
KgWrite(p) ==
    /\ kpc[p].stage = "writing"
    /\ KgStep(p, [kpc[p] EXCEPT !.stage = "done", !.written = FullLen, !.out = "ok"],
              KeyFile(kpc[p].key))

InitKeyRace == InitKeyVault

NextKeyRace ==
    \/ \E p \in KeyProcs : KgCheck(p)
    \/ \E p \in KeyProcs, k \in VaultKeys : KgOpen(p, k)
    \/ \E p \in KeyProcs : KgWrite(p)
    \/ DoLoadKey
    \/ DoVaultInit
    \/ \E path \in VaultPaths : HasInstance /\ DoLoadCredentials(path)
    \/ \E path \in VaultPaths, secrets \in SecretInputs :
            HasInstance /\ DoSaveCredentials(path, secrets, EmptyObj)

SpecKeyRace == InitKeyRace /\ [][NextKeyRace]_vars

(***************************************************************************)
(* SpecVaultSteps: a process that calls save_credentials, followed system  *)
(* call by system call, next to a process that reads the vault file.  The  *)
(* write can fail with an OSError and the process can be killed at any     *)
(* point; a killed process is started again with a new vault instance.     *)
(*                                                                         *)
(*   idle       between two calls                                          *)
(*   vw_open    _write has the token; before write_bytes opens the file    *)
(*   vw_write   write_bytes has opened (created, emptied) the file and is  *)
(*              writing                                                    *)
(*   crashed    killed                                                     *)
(***************************************************************************)
\* The vault file with fewer than all the bytes of Token(k, data) in it.
CutToken(k, data) == [Token(k, data) EXCEPT !.state = "truncated"]

\* save_credentials up to write_bytes: _load, the new entry, mkdir,
\* json.dumps and encrypt.
VwBegin(p, path, secrets, metadata) ==
    /\ pc[p] = "idle"
    /\ LET r == SaveCredentials(vault, fernet, clock, path, secrets, metadata) IN
        IF r.err # ""
        THEN /\ loc' = [loc EXCEPT ![p] = NoLoc]
             /\ UNCHANGED pc
        ELSE /\ loc' = [loc EXCEPT ![p] =
                    [NoLoc EXCEPT !.writer = "vault",
                                  !.payload = r.vault,
                                  !.before = vault]]
             /\ Goto(p, "vw_open")
    /\ UNCHANGED <<vault, fernet, vlast, saved, vseen, tmp, seen, storeVars,
                   keyVars, modelVars>>

\* The vault file once write_bytes has opened it ("wb") and n chunks of the
\* token are in it.
VaultFileDuringWrite(before, token, n) ==
    IF n = FullLen THEN token ELSE CutToken(token.key, token.plain)

\* write_bytes: open(vault_path, "wb") makes the file, or empties it.
VwOpen(p) ==
    /\ pc[p] = "vw_open"
    /\ vault' = VaultFileDuringWrite(loc[p].before, loc[p].payload, 0)
    /\ Goto(p, "vw_write")
    /\ UNCHANGED <<loc, fernet, vlast, saved, vseen, tmp, seen, storeVars,
                   keyVars, modelVars>>

\* write_bytes: the token reaches the file, in one write or several.
VwWrite(p) ==
    /\ pc[p] = "vw_write"
    /\ \E n \in (loc[p].written + 1)..FullLen :
        /\ vault' = VaultFileDuringWrite(loc[p].before, loc[p].payload, n)
        /\ loc' = [loc EXCEPT ![p].written = n, ![p].replaced = (n = FullLen)]
        /\ Goto(p, IF n = FullLen THEN "idle" ELSE "vw_write")
    /\ UNCHANGED <<fernet, vlast, saved, vseen, tmp, seen, storeVars,
                   keyVars, modelVars>>

\* open or write raises OSError: save_credentials raises it.
VwOSError(p) ==
    /\ pc[p] \in {"vw_open", "vw_write"}
    /\ loc' = [loc EXCEPT ![p].failed = TRUE]
    /\ Goto(p, "idle")
    /\ UNCHANGED <<vault, fernet, vlast, saved, vseen, tmp, seen, storeVars,
                   keyVars, modelVars>>

\* The process is killed inside save_credentials.
VwCrash(p) ==
    /\ pc[p] \in {"vw_open", "vw_write"}
    /\ loc' = [loc EXCEPT ![p].failed = TRUE]
    /\ Goto(p, "crashed")
    /\ UNCHANGED <<vault, fernet, vlast, saved, vseen, tmp, seen, storeVars,
                   keyVars, modelVars>>

\* The process started in its place constructs a vault instance.
VwRestart(p) ==
    /\ pc[p] = "crashed"
    /\ Goto(p, "idle")
    /\ UNCHANGED <<loc, vault, fernet, vlast, saved, vseen, tmp, seen, storeVars,
                   keyVars, modelVars>>

\* load_credentials or list_paths between two saves.
VwRead(p) ==
    /\ pc[p] = "idle"
    /\ \/ DoListPaths
       \/ \E path \in VaultPaths : DoLoadCredentials(path)

\* What a read of the whole vault file shows of it: whether there is a
\* file, and whether a whole token is in it.
VaultObserved(v) == [v EXCEPT !.plain = EmptyObj]

\* Another process reads the vault file.
VaultReaderRead ==
    /\ vseen' = VaultObserved(vault)
    /\ UNCHANGED <<vault, fernet, vlast, saved, stepVars, storeVars,
                   keyVars, modelVars>>

InitVaultSteps ==
    /\ auto_create = TRUE
    /\ clock = 0
    /\ file = EnsureFileExists(Absent, 0)
    /\ last = Event("init", "", NoArg, FALSE, "", None)
    /\ StepsIdle
    /\ VaultIdle
    /\ keyfile = KeyFile(fernet)
    /\ kpc = [p \in KeyProcs |-> KeyProcIdle]
    /\ ModelsIdle

NextVaultSteps ==
    \/ VaultReaderRead
    \/ \E p \in Writers, path \in VaultPaths, secrets \in SecretInputs :
            VwBegin(p, path, secrets, EmptyObj)
    \/ \E p \in Writers : VwOpen(p)
    \/ \E p \in Writers : VwWrite(p)
    \/ \E p \in Writers : VwOSError(p)
    \/ \E p \in Writers : VwCrash(p)
    \/ \E p \in Writers : VwRestart(p)
    \/ \E p \in Writers : VwRead(p)

SpecVaultSteps == InitVaultSteps /\ [][NextVaultSteps]_vars

(***************************************************************************)
(* ModelStore.  A version label is the sequence of its characters' codes,  *)
(* so that sorted() orders labels as Python orders strings.  The root is   *)
(* a map from model name to a map from version label to the artifact in    *)
(* that directory.                                                         *)
(***************************************************************************)
\* ord("v"), ord("p"), ord("0")
CharV == 118

CharP == 112

Char0 == 48

\* str(n) for n >= 0
RECURSIVE StrOfInt(_)
StrOfInt(n) ==
    IF n < 10 THEN <<Char0 + n>>
    ELSE StrOfInt(n \div 10) \o <<Char0 + (n % 10)>>

\* f"v{n}"
VLabel(n) == <<CharV>> \o StrOfInt(n)

\* The label "p" (as in "prod"): one that does not start with "v".
PLabel == <<CharP>>

\* "latest"
Latest == <<108, 97, 116, 101, 115, 116>>

\* version=None (or ""): no label given.
NoVersion == <<>>

\* a < b for Python strings
RECURSIVE StrLess(_, _)
StrLess(a, b) ==
    IF b = <<>> THEN FALSE
    ELSE IF a = <<>> THEN TRUE
    ELSE IF Head(a) # Head(b) THEN Head(a) < Head(b)
    ELSE StrLess(Tail(a), Tail(b))

\* sorted(S) for a set of strings
RECURSIVE SortedStrs(_)
SortedStrs(S) ==
    IF S = {} THEN <<>>
    ELSE LET m == CHOOSE x \in S : \A y \in S \ {x} : StrLess(x, y)
         IN <<m>> \o SortedStrs(S \ {m})

IsDigits(t) == t # <<>> /\ \A i \in 1..Len(t) : t[i] \in Char0..(Char0 + 9)

\* int(t) for a string of digits
RECURSIVE IntOfStr(_)
IntOfStr(t) ==
    IF t = <<>> THEN 0
    ELSE 10 * IntOfStr(SubSeq(t, 1, Len(t) - 1)) + (t[Len(t)] - Char0)

SetMax(S) == CHOOSE x \in S : \A y \in S : y <= x

ModelNames == {"clf", "reg"}

\* Model names in lexicographic order, for sorted().
ModelNameOrder == <<"clf", "reg">>

\* version=None, or a label of the caller's.
VersionArgs == {NoVersion, PLabel, VLabel(2)}

MResult(ms, e, r) == [mstore |-> ms, err |-> e, ret |-> r]

\* ModelStore.list_versions
ListVersions(ms, name) ==
    IF name \notin DOMAIN ms.dirs THEN <<>>
    ELSE SortedStrs(DOMAIN ms.dirs[name])

\* ModelStore.list_models
ListModels(ms) == SelectSeq(ModelNameOrder, LAMBDA n : n \in DOMAIN ms.dirs)

\* ModelStore._next_version: the label, or the error int() or max() raises.
NextVersion(ms, name) ==
    IF name \notin DOMAIN ms.dirs THEN Ok(VLabel(1))
    ELSE LET vs == {v \in DOMAIN ms.dirs[name] : Head(v) = CharV} IN
         IF \E v \in vs : ~IsDigits(Tail(v)) THEN Fail("ValueError")
         ELSE IF vs = {} THEN Fail("ValueError")
         ELSE Ok(VLabel(SetMax({IntOfStr(Tail(v)) : v \in vs}) + 1))

\* ModelStore._resolve_version: the label of the directory, or the error.
ResolveVersion(ms, name, version) ==
    IF name \notin DOMAIN ms.dirs THEN Fail("ValueError")
    ELSE LET versions == ListVersions(ms, name) IN
         IF version = Latest
         THEN IF versions = <<>> THEN Fail("ValueError")
              ELSE Ok(versions[Len(versions)])
         ELSE IF version \notin DOMAIN ms.dirs[name] THEN Fail("ValueError")
         ELSE Ok(version)

\* manifest.json of a version directory
Manifest(name, version, now, metadata) ==
    [artifact_type |-> "model", name |-> name, version |-> version,
     created_at |-> now, metadata |-> metadata]

\* A save that does not look at read_only.
ModelSaveRefused_Never(ro) == FALSE

\* save: if self.read_only: raise PermissionError
ModelSaveRefused(ro) == ro

\* ModelStore.save; ret is the label of the directory written.
ModelSave(ms, ro, now, name, model, version, metadata) ==
    IF ModelSaveRefused(ro) THEN MResult(ms, "PermissionError", None)
    ELSE LET nv == IF version = NoVersion THEN NextVersion(ms, name) ELSE Ok(version) IN
         IF nv.err # "" THEN MResult(ms, nv.err, None)
         ELSE LET old == IF name \in DOMAIN ms.dirs THEN ms.dirs[name] ELSE EmptyObj
                  art == [model |-> model,
                          manifest |-> Manifest(name, nv.data, now, metadata)]
              IN MResult([ms EXCEPT !.dirs = Put(@, name, Put(old, nv.data, art))],
                         "", nv.data)

\* ModelStore.load
ModelLoad(ms, name, version) ==
    LET r == ResolveVersion(ms, name, version) IN
    IF r.err # "" THEN MResult(ms, r.err, None)
    ELSE MResult(ms, "", ms.dirs[name][r.data]["model"])

\* ModelStore.info
ModelInfo(ms, name, version) ==
    LET r == ResolveVersion(ms, name, version) IN
    IF r.err # "" THEN MResult(ms, r.err, None)
    ELSE MResult(ms, "", ms.dirs[name][r.data]["manifest"])

(***************************************************************************)
(* SpecModels: one process that constructs ModelStore instances on one     *)
(* root, read-only or not, and calls them, one call after the other.       *)
(***************************************************************************)
NumVersions(ms) ==
    LET RECURSIVE Sum(_)
        Sum(S) == IF S = {} THEN 0
                  ELSE LET n == CHOOSE x \in S : TRUE
                       IN Cardinality(DOMAIN ms.dirs[n]) + Sum(S \ {n})
    IN Sum(DOMAIN ms.dirs)

MCall(op, name, version, r) ==
    /\ mstore' = r.mstore
    /\ mlast' = [MEvent(op, name, r.err, r.ret) EXCEPT !.version = version]
    /\ UNCHANGED <<read_only, storeVars, stepVars, vaultVars, keyVars>>

\* ModelStore(root, read_only): a new instance in place of the one before.
DoModelStoreInit(ro) ==
    /\ read_only' = ro
    /\ mstore' = [mstore EXCEPT !.root = TRUE]
    /\ mlast' = MEvent("init", "", "", None)
    /\ UNCHANGED <<storeVars, stepVars, vaultVars, keyVars>>

DoModelSave(name, version) ==
    /\ mstore.root
    /\ NumVersions(mstore) < MaxVersions
    /\ MCall("save", name, version,
             ModelSave(mstore, read_only, clock, name, "model", version, EmptyObj))

DoModelLoad(name, version) ==
    mstore.root /\ MCall("load", name, version, ModelLoad(mstore, name, version))

DoModelInfo(name, version) ==
    mstore.root /\ MCall("info", name, version, ModelInfo(mstore, name, version))

DoListModels ==
    mstore.root /\ MCall("list_models", "", NoVersion, MResult(mstore, "", ListModels(mstore)))

DoListVersions(name) ==
    /\ mstore.root
    /\ MCall("list_versions", name, NoVersion,
             MResult(mstore, "", ListVersions(mstore, name)))

InitModels ==
    /\ auto_create = TRUE
    /\ clock = 0
    /\ file = EnsureFileExists(Absent, 0)
    /\ last = Event("init", "", NoArg, FALSE, "", None)
    /\ StepsIdle
    /\ VaultIdle
    /\ KeyIdle
    /\ ModelsIdle

NextModels ==
    \/ \E ro \in BOOLEAN : DoModelStoreInit(ro)
    \/ \E name \in ModelNames, version \in VersionArgs : DoModelSave(name, version)
    \/ \E name \in ModelNames : DoModelLoad(name, Latest)
    \/ \E name \in ModelNames : DoModelInfo(name, Latest)
    \/ DoListModels
    \/ \E name \in ModelNames : DoListVersions(name)

SpecModels == InitModels /\ [][NextModels]_vars

(***************************************************************************)
(* Properties.  A step of Spec, SpecEnv or SpecVault is one call (or one   *)
(* move of the clock or the environment), and last' (vlast') names it: a   *)
(* property of a call is a property of the steps whose last' is that call, *)
(* relating the file before (file) to the file after (file').              *)
(***************************************************************************)
\* The records of the document in f ({} when f does not load).
Creds(f) ==
    LET l == LoadJson(f) IN
    IF Exists(f) /\ l.err = "" THEN l.data["credentials"] ELSE EmptyObj

StringKeyed(d) == PyInt1 \notin DOMAIN d

\* C1: during _atomic_write_json, at every step of it, after an OSError in
\* it and after a kill in it, path holds either the content it had when the
\* write began or the whole new payload, never part of one; and as long as
\* os.replace has not run, path still holds the content it had.
C1_AtomicWrite ==
    \A p \in Writers :
        loc[p].writer = "atomic" =>
            /\ file \in {loc[p].before, FullText(loc[p].payload)}
            /\ ~loc[p].replaced => file = loc[p].before
            /\ loc[p].replaced => file = FullText(loc[p].payload)

\* C1 witness: the process was killed with the temporary file half written;
\* path holds the previous document, which differs from the payload.
C1_Witness ==
    \E p \in Writers :
        /\ pc[p] = "crashed"
        /\ loc[p].writer = "atomic"
        /\ Partial(tmp[p])
        /\ file = loc[p].before
        /\ file.shape = "object" /\ file.len = FullLen
        /\ file # FullText(loc[p].payload)

\* C2 (as claimed): a process reading the file while the store is in use
\* never reads an empty or a partly written text.
C2_ReaderNeverSeesPartial == seen.shape # "blank" /\ ~Partial(seen)

\* C3: upsert(key, f2, overwrite=False) with a dict f2 on a present key
\* raises CredentialExistsError and leaves the file as it was.
C3_UpsertNoOverwrite ==
    [][ (/\ last'.op = "upsert"
         /\ last'.arg.isdict
         /\ ~last'.flag
         /\ last'.key \in DOMAIN Creds(file))
        => (last'.err = "CredentialExistsError" /\ file' = file) ]_vars

\* C3 witness: an upsert without overwrite was refused, and the record under
\* the key holds other fields than the ones passed.
C3_Witness ==
    /\ last.op = "upsert"
    /\ last.err = "CredentialExistsError"
    /\ Serializable(last.arg.d)
    /\ last.key \in DOMAIN Creds(file)
    /\ Creds(file)[last.key]["fields"] # JsonOf(last.arg.d)

\* What C4 says of a successful upsert, with `stored` the fields the claim
\* expects get to return.
UpsertThenGet(stored) ==
    LET k == last'.key
        g == Get(file', auto_create', clock', k)
        old == Creds(file)
        new == Creds(file')
    IN  /\ g.err = ""
        /\ g.ret # None
        /\ g.ret = last'.ret
        /\ g.ret["fields"] = stored
        /\ g.ret["updated_at"] = clock
        /\ g.ret["created_at"] =
                (IF k \in DOMAIN old THEN old[k]["created_at"] ELSE clock)
        /\ DOMAIN new = DOMAIN old \cup {k}
        /\ \A j \in DOMAIN old \ {k} : new[j] = old[j]

\* C4 (as claimed): after a successful upsert(key, fields), get(key) returns
\* a record whose fields equal the fields passed, whose updated_at is the
\* time of the call and whose created_at is that of the record replaced (the
\* time of the call when there was none); the other records are unchanged.
C4_UpsertThenGet_AsClaimed ==
    [][ (last'.op = "upsert" /\ last'.err = "")
        => UpsertThenGet(last'.arg.d) ]_vars

\* C4 (amended): the same, with the fields get returns being the fields
\* passed as json.loads(json.dumps(fields)) reads them back: equal to the
\* fields passed when all their keys are strings, and with a non-string key
\* turned into its string otherwise.
C4_UpsertThenGet ==
    [][ (last'.op = "upsert" /\ last'.err = "")
        => /\ UpsertThenGet(JsonOf(last'.arg.d))
           /\ StringKeyed(last'.arg.d) => JsonOf(last'.arg.d) = last'.arg.d ]_vars

\* C4 witness: an upsert with string keys replaced a record made earlier,
\* next to a record under another key.
C4_Witness ==
    /\ last.op = "upsert" /\ last.err = ""
    /\ StringKeyed(last.arg.d)
    /\ last.ret["fields"] = last.arg.d
    /\ last.ret["created_at"] < last.ret["updated_at"]
    /\ DOMAIN Creds(file) = Keys

\* C5 (as claimed): an upsert that raises ValueError for its fields (not a
\* dict, or not JSON-serializable) has created, written and replaced no
\* file: the backing file, present or not, is as it was.
C5_InvalidFieldsTouchNothing ==
    [][ (last'.op = "upsert" /\ last'.err = "ValueError") => file' = file ]_vars

\* C6: delete(key, missing_ok) of a present key removes that record and
\* leaves every other record as it was; of an absent key it raises
\* CredentialNotFoundError unless missing_ok, and with missing_ok returns
\* without a write; either way an absent key leaves the file as it was, so
\* a delete with missing_ok repeated never raises and changes nothing.
C6_Delete ==
    [][ last'.op = "delete" =>
        LET k == last'.key
            old == Creds(file)
            new == Creds(file')
        IN  /\ k \in DOMAIN old =>
                /\ last'.err = ""
                /\ DOMAIN new = DOMAIN old \ {k}
                /\ \A j \in DOMAIN new : new[j] = old[j]
            /\ (k \notin DOMAIN old /\ last'.flag) =>
                (last'.err = "" /\ file' = file)
            /\ (k \notin DOMAIN old /\ ~last'.flag) =>
                (last'.err = "CredentialNotFoundError" /\ file' = file)
            /\ (last.op = "delete" /\ last.key = k /\ last.flag /\ last'.flag) =>
                (last.err = "" /\ last'.err = "" /\ file' = file) ]_vars

\* C6 witness: a delete without missing_ok succeeded (the key was present),
\* the key is gone and another record is still there.
C6_Witness ==
    /\ last.op = "delete" /\ ~last.flag /\ last.err = ""
    /\ last.key \notin DOMAIN Creds(file)
    /\ DOMAIN Creds(file) # {}

\* C7: update_fields(key, patch) of an absent key raises
\* CredentialNotFoundError and leaves the file as it was; of a present key,
\* with a serializable patch of string keys, it succeeds, and the record's
\* fields are then the stored fields with every name of the patch set to the
\* patch's value and every other name kept, created_at is kept, and a name
\* set by the update_fields just before is still there; an update_fields
\* that raises leaves the file as it was.
C7_UpdateFields ==
    [][ last'.op = "update_fields" =>
        LET k == last'.key
            patch == last'.arg.d
            old == Creds(file)
            new == Creds(file')
        IN  /\ k \notin DOMAIN old =>
                (last'.err = "CredentialNotFoundError" /\ file' = file)
            /\ (k \in DOMAIN old /\ StringKeyed(patch) /\ Serializable(patch)) =>
                last'.err = ""
            /\ last'.err # "" => file' = file
            /\ (k \in DOMAIN old /\ StringKeyed(patch) /\ last'.err = "") =>
                /\ k \in DOMAIN new
                /\ DOMAIN new[k]["fields"] = DOMAIN old[k]["fields"] \cup DOMAIN patch
                /\ \A n \in DOMAIN patch : new[k]["fields"][n] = patch[n]
                /\ \A n \in DOMAIN old[k]["fields"] \ DOMAIN patch :
                        new[k]["fields"][n] = old[k]["fields"][n]
                /\ new[k]["created_at"] = old[k]["created_at"]
                /\ last'.ret = new[k]
                /\ (last.op = "update_fields" /\ last.key = k /\ last.err = "") =>
                        \A n \in DOMAIN last.arg.d \ DOMAIN patch :
                            new[k]["fields"][n] = last.arg.d[n] ]_vars

\* C7 witness: update_fields(key, {a: x}) on a record with the fields
\* {a: y, b: y} replaced a and kept b.
C7_Witness ==
    /\ last.op = "update_fields" /\ last.err = ""
    /\ last.arg.d = [a |-> "x"]
    /\ Creds(file)[last.key]["fields"] = [a |-> "x", b |-> "y"]

\* The calls that read the store: all but ensure_exists, and an upsert only
\* when its fields are a dict (it raises before its read otherwise).
Reads(e) ==
    /\ e.op \in {"list_keys", "has", "get", "require", "upsert", "update_fields", "delete"}
    /\ e.op = "upsert" => e.arg.isdict

StoreCall(e) == e.op \notin {"init", "tick", "env"}

\* Text that is not JSON (cut short or otherwise), a JSON text whose root is
\* not an object, one whose credentials is not an object.
Corrupt(f) == f.shape \in {"notjson", "rootlist", "credslist"} \/ Partial(f)

C9_RecordStateMachine ==
    [][ StoreCall(last') =>
        LET old == DOMAIN Creds(file)
            new == DOMAIN Creds(file')
        IN  /\ \A k \in new \ old :
                    last'.op = "upsert" /\ last'.key = k /\ last'.err = ""
            /\ \A k \in old \ new :
                    last'.op = "delete" /\ last'.key = k /\ last'.err = ""
            /\ last'.op \in {"list_keys", "has", "get", "require",
                             "ensure_exists", "update_fields"} => new = old
            /\ last'.err # "" => file' = file ]_vars

\* C9 witness: update_fields of an absent key raised and the key is still
\* absent, while the other key is present.
C9_Witness ==
    /\ last.op = "update_fields" /\ last.err = "CredentialNotFoundError"
    /\ last.key \notin DOMAIN Creds(file)
    /\ DOMAIN Creds(file) # {}

\* A vault file that is there and is no token decrypt() accepts under k.
InvalidVault(v, k) ==
    v.shape # "absent" /\ (v.key # k \/ v.state # "intact")

VaultCall(e) == e.op \in {"save_credentials", "load_credentials", "list_paths"}

\* C10: while the vault file is there and is not a valid token under the
\* instance's key (altered, cut short, or made with another key),
\* save_credentials, load_credentials and list_paths raise InvalidToken (the
\* decryption failure) and leave the file as it is; no other file raises
\* it, and only a missing file is read as an empty vault: list_paths returns
\* [], load_credentials raises ValueError, save_credentials makes the file.
C10_VaultTamper ==
    [][ VaultCall(vlast') =>
        /\ InvalidVault(vault, fernet) =>
            (vlast'.err = "InvalidToken" /\ vault' = vault)
        /\ ~InvalidVault(vault, fernet) => vlast'.err # "InvalidToken"
        /\ vault.shape = "absent" =>
            /\ vlast'.op = "list_paths" => (vlast'.err = "" /\ vlast'.ret = <<>>)
            /\ vlast'.op = "load_credentials" => vlast'.err = "ValueError"
            /\ vlast'.op = "save_credentials" =>
                (vlast'.err = "" /\ ~InvalidVault(vault', fernet)
                    /\ DOMAIN vault'.plain = {vlast'.path})
        /\ (vlast'.op = "list_paths" /\ vlast'.err = "" /\ vlast'.ret = <<>>) =>
            (vault.shape = "absent" \/ vault.plain = EmptyObj) ]_vars

\* C10 witness: save_credentials on an altered vault file raised
\* InvalidToken, and the file still holds the altered token with its entry.
C10_Witness ==
    /\ vlast.op = "save_credentials" /\ vlast.err = "InvalidToken"
    /\ vault.state = "altered"
    /\ vlast.path \notin DOMAIN vault.plain
    /\ DOMAIN vault.plain # {}

\* The instances a process can call: the one it has, and the one a new
\* CredentialVault() would be.
Instances(f, kf) ==
    ({f} \cup (IF VaultInit(kf).err = "" THEN {VaultInit(kf).data} ELSE {}))
        \ {NoInstance}

\* C11: through the instance at hand and through a newly constructed one,
\* load_credentials(p) returns the secrets of the most recent successful
\* save_credentials for p and raises ValueError (not found) exactly when p
\* was never saved; list_paths returns the saved paths in sorted order; and
\* the load_credentials just made returned just that.  (A save to one path
\* leaving the other paths' secrets alone is part of this: saved changes
\* only at the path saved.)
C11_VaultRoundTrip ==
    /\ \A k \in Instances(fernet, keyfile) :
        /\ \A p \in VaultPaths :
            LET r == LoadCredentials(vault, k, p) IN
            IF p \in DOMAIN saved
            THEN r.err = "" /\ r.ret = saved[p]
            ELSE r.err = "ValueError"
        /\ ListPaths(vault, k).err = ""
        /\ ListPaths(vault, k).ret = SelectSeq(PathOrder, LAMBDA q : q \in DOMAIN saved)
    /\ vlast.op = "load_credentials" =>
        IF vlast.path \in DOMAIN saved
        THEN vlast.err = "" /\ vlast.ret = saved[vlast.path]
        ELSE vlast.err = "ValueError"
    /\ vlast.op = "list_paths" =>
        vlast.ret = SelectSeq(PathOrder, LAMBDA q : q \in DOMAIN saved)

\* C11 witness: both paths were saved with different secrets, the clock has
\* moved, and a load_credentials returned the secrets saved for its path.
C11_Witness ==
    /\ vlast.op = "load_credentials" /\ vlast.err = ""
    /\ DOMAIN saved = VaultPaths
    /\ saved["p1"] # saved["p2"]
    /\ vlast.ret = saved[vlast.path]
    /\ vault.plain[vlast.path]["metadata"]["created_at"] = MaxTime

\* C13: generate_key raises FileExistsError when the key file is there and
\* leaves it as it is, and writes a whole key when it is not; load_key
\* raises FileNotFoundError when there is no file and otherwise returns the
\* file's bytes, and never changes the file; so no step changes a key file
\* once it is there, and a successful load_key returns the bytes the
\* successful generate_key wrote.
C13_KeyLifecycle ==
    [][ /\ vlast'.op = "generate_key" =>
            IF KeyExists(keyfile)
            THEN vlast'.err = "FileExistsError" /\ keyfile' = keyfile
            ELSE vlast'.err = "" /\ KeyExists(keyfile') /\ keyfile'.len = FullLen
        /\ vlast'.op = "load_key" =>
            /\ keyfile' = keyfile
            /\ IF KeyExists(keyfile)
               THEN vlast'.err = "" /\ vlast'.ret = KeyBytes(keyfile)
               ELSE vlast'.err = "FileNotFoundError"
        /\ KeyExists(keyfile) => keyfile' = keyfile ]_vars

\* C13 witness: a generate_key was refused on a key file that a vault
\* instance has used to encrypt a document.
C13_Witness ==
    /\ vlast.op = "generate_key" /\ vlast.err = "FileExistsError"
    /\ KeyExists(keyfile)
    /\ vault.shape = "token" /\ vault.key = keyfile.key

\* C12 (as claimed): from the moment a save_credentials on a vault file
\* holding a token starts writing, also when the write fails or the process
\* is killed, the vault file holds either the whole token it held before or
\* the whole new token, and the one it held before unless the write ran to
\* its end; a load_credentials or list_paths then never raises
\* InvalidToken, and a process reading the file beside it never reads a
\* token cut short.
C12_VaultWriteAllOrNothing ==
    /\ \A p \in Writers :
        (loc[p].writer = "vault" /\ loc[p].before.shape = "token") =>
            /\ vault \in {loc[p].before, loc[p].payload}
            /\ ~loc[p].replaced => vault = loc[p].before
    /\ vlast.err # "InvalidToken"
    /\ vseen.state # "truncated"

\* C14: with two processes each making one mutating call on the same file,
\* the file is at every moment a whole document that loads; when both
\* calls have returned it is the document one of the two wrote; and when
\* both read the file before either replaced it, that document holds the
\* update of one of them only.
C14_LastReplaceWins ==
    /\ file.shape = "object" /\ file.len = FullLen
    /\ seen.shape \in {"absent", "object"} /\ ~Partial(seen)
    /\ (\A p \in Racers : Returned(p)) =>
        /\ \E p \in Racers : file = FullText(loc[p].payload)
        /\ (\A p, q \in Racers : loc[p].before = loc[q].before) =>
            Cardinality(DOMAIN Creds(file)) = 1

\* C14 witness: both processes returned from an upsert, of k1 and of k2,
\* and the file holds the record of one of the two keys only.
C14_Witness ==
    /\ \A p \in Racers : Returned(p)
    /\ DOMAIN loc["w1"].payload["credentials"] = {"k1"}
    /\ DOMAIN loc["w2"].payload["credentials"] = {"k2"}
    /\ Cardinality(DOMAIN Creds(file)) = 1

\* C15: after every step that changes the file of a store that started
\* empty, with a clock that does not go back, every record has created_at
\* <= updated_at <= the clock, and a record whose key was present before the
\* step and is present after it has the created_at it had.
C15_Timestamps ==
    [][ file' # file =>
        LET old == Creds(file)
            new == Creds(file')
        IN  /\ \A k \in DOMAIN new :
                /\ new[k]["created_at"] <= new[k]["updated_at"]
                /\ new[k]["updated_at"] <= clock'
            /\ \A k \in DOMAIN new \cap DOMAIN old :
                new[k]["created_at"] = old[k]["created_at"] ]_vars

\* C15 witness: update_fields at a later time on a record made earlier:
\* created_at is still the earlier time, updated_at the later one.
C15_Witness ==
    /\ last.op = "update_fields" /\ last.err = ""
    /\ last.ret["created_at"] = 0
    /\ last.ret["updated_at"] = MaxTime
    /\ Creds(file)[last.key] = last.ret

\* C16: ensure_exists() on an absent file writes the initial document, with
\* no records and _meta.created_at the time of the call; on a file that is
\* there, whatever is in it, it leaves the file as it is, so repeating it
\* changes nothing.
C16_EnsureExists ==
    [][ last'.op = "ensure_exists" =>
        /\ last'.err = ""
        /\ Exists(file) => file' = file
        /\ ~Exists(file) =>
            /\ file' = FullText(InitialDocument(clock))
            /\ Creds(file') = EmptyObj
            /\ LoadJson(file').data["_meta"] = [created_at |-> clock]
        /\ EnsureFileExists(file', clock') = file' ]_vars

\* C16 witness: ensure_exists() was called on a file holding a record and
\* the record is still there.
C16_Witness ==
    /\ last.op = "ensure_exists" /\ last.err = ""
    /\ DOMAIN Creds(file) # {}
    /\ clock = MaxTime

\* C17 (as claimed): a successful save_credentials(path, secrets, metadata)
\* leaves under path the secrets given and a metadata holding every field
\* the caller gave, with the caller's value; its created_at, when the caller
\* gave none, is the time of the call on the first write of the path and
\* the created_at the entry already had on a later one.
C17_VaultMetadata ==
    [][ (vlast'.op = "save_credentials" /\ vlast'.err = "") =>
        LET p == vlast'.path
            given == vlast'.arg
            old == VaultLoad(vault, fernet).data
            new == VaultLoad(vault', fernet').data
        IN  /\ new[p]["secrets"] = saved'[p]
            /\ \A n \in DOMAIN given : new[p]["metadata"][n] = given[n]
            /\ DOMAIN new[p]["metadata"] = DOMAIN given \cup {"created_at"}
            /\ "created_at" \notin DOMAIN given =>
                new[p]["metadata"]["created_at"] =
                    (IF p \in DOMAIN old
                     THEN old[p]["metadata"]["created_at"]
                     ELSE clock) ]_vars

\* C18: a save on a read-only ModelStore raises PermissionError and leaves
\* everything under the root as it was: no directory, no file is made, and
\* list_models and list_versions return what they returned before.
C18_ReadOnlySave ==
    [][ (mlast'.op = "save" /\ read_only) =>
        /\ mlast'.err = "PermissionError"
        /\ mstore' = mstore
        /\ ListModels(mstore') = ListModels(mstore)
        /\ \A name \in ModelNames :
            ListVersions(mstore', name) = ListVersions(mstore, name) ]_vars

\* C18 witness: a save of a new model was refused on a read-only store that
\* holds versions of another model.
C18_Witness ==
    /\ mlast.op = "save" /\ mlast.err = "PermissionError"
    /\ read_only
    /\ DOMAIN mstore.dirs # {}
    /\ mlast.name \notin DOMAIN mstore.dirs

\* The versions of name are v1..vk, as k saves with the default version
\* leave them.
AutoVersions(ms, name) ==
    IF name \notin DOMAIN ms.dirs THEN {}
    ELSE DOMAIN ms.dirs[name]

AutoOnly(ms, name) ==
    AutoVersions(ms, name) =
        {VLabel(i) : i \in 1..Cardinality(AutoVersions(ms, name))}

\* C19 (as claimed): on a model saved with the default version only, the
\* k-th successful save with the default version writes the directory vk,
\* a directory that was not there, and after it info(name, "latest") is the
\* manifest of vk and load(name, "latest") its model.
C19_AutoVersioning ==
    [][ (/\ mlast'.op = "save" /\ mlast'.err = ""
         /\ mlast'.version = NoVersion
         /\ AutoOnly(mstore, mlast'.name)) =>
        LET name == mlast'.name
            k == Cardinality(AutoVersions(mstore, name)) + 1
        IN  /\ mlast'.ret = VLabel(k)
            /\ VLabel(k) \notin AutoVersions(mstore, name)
            /\ ResolveVersion(mstore', name, Latest) = Ok(VLabel(k))
            /\ ModelInfo(mstore', name, Latest).ret["version"] = VLabel(k) ]_vars

\* C20 (as claimed): of two generate_key calls that run at the same time on
\* one key_path at most one returns without an error, and once the file
\* holds a whole key no step of either call changes the file, so a vault
\* file written with that key is decrypted by every later vault instance.
C20_KeyGenerationRace ==
    /\ [](Cardinality({p \in KeyProcs : kpc[p].out = "ok"}) <= 1)
    /\ [][ keyfile.len = FullLen => keyfile' = keyfile ]_vars
    /\ []((vault.shape = "token" /\ keyfile.len = FullLen) => vault.key = keyfile.key)

\* The seven operations that go through _read_store.
StoreOps == {"list_keys", "has", "get", "require", "upsert", "update_fields", "delete"}

\* The file ensure_exists writes at the time now.
FreshFile(now) == FullText(InitialDocument(now))

\* C21: with auto_create=false nothing but ensure_exists (and whatever is
\* outside the store) makes the file: the constructor raises
\* FileNotFoundError on an absent file and makes no instance, and on an
\* absent file list_keys, has, get, require, upsert with fields that are a
\* dict, update_fields and delete raise FileNotFoundError and leave it
\* absent.  With auto_create=true the constructor and these calls first
\* write the initial document and then go on with it: list_keys returns [],
\* has False, get None, require, update_fields and delete (unless
\* missing_ok) raise CredentialNotFoundError, and an upsert stores its record
\* or fails its validation with the new file left in place.  An upsert with
\* fields that are not a dict raises ValueError before the file is looked
\* at and leaves it absent, whatever auto_create is.
C21_AutoCreate ==
    [][ LET e == last' IN
        /\ (e.op = "init" /\ ~e.flag) =>
            /\ file' = file
            /\ IF Exists(file)
               THEN e.err = "" /\ ~auto_create'
               ELSE e.err = "FileNotFoundError" /\ auto_create' = auto_create
        /\ (e.op = "init" /\ e.flag) =>
            /\ e.err = "" /\ auto_create'
            /\ file' = IF Exists(file) THEN file ELSE FreshFile(clock)
        /\ e.op # "init" => auto_create' = auto_create
        /\ (~auto_create /\ ~Exists(file) /\ Exists(file')) =>
            e.op \in {"ensure_exists", "env", "init"}
        /\ (~Exists(file) /\ e.op \in StoreOps) =>
            IF e.op = "upsert" /\ ~e.arg.isdict
            THEN e.err = "ValueError" /\ file' = file
            ELSE IF ~auto_create
            THEN e.err = "FileNotFoundError" /\ file' = file
            ELSE /\ Exists(file')
                 /\ e.op = "list_keys" => (e.err = "" /\ e.ret = <<>>)
                 /\ e.op = "has" => (e.err = "" /\ e.ret = FALSE)
                 /\ e.op = "get" => (e.err = "" /\ e.ret = None)
                 /\ e.op \in {"require", "update_fields"} =>
                        e.err = "CredentialNotFoundError"
                 /\ e.op = "delete" =>
                        e.err = IF e.flag THEN "" ELSE "CredentialNotFoundError"
                 /\ e.op # "upsert" => file' = FreshFile(clock)
                 /\ e.op = "upsert" =>
                        IF e.err = ""
                        THEN /\ DOMAIN Creds(file') = {e.key}
                             /\ e.ret = Creds(file')[e.key]
                             /\ file'.doc["_meta"]["created_at"] = clock
                        ELSE e.err = "ValueError" /\ file' = FreshFile(clock) ]_vars

\* C21 witness: on an instance with auto_create=false whose file went away,
\* an upsert with fields that are a dict raised FileNotFoundError and the
\* file is still absent.
C21_Witness ==
    /\ ~auto_create /\ ~Exists(file)
    /\ last.op = "upsert" /\ last.arg.isdict
    /\ last.err = "FileNotFoundError"

\* C21 (as claimed): on an absent file each of the seven operations raises
\* FileNotFoundError and leaves it absent with auto_create=false, and makes
\* the file with auto_create=true.
C21_AutoCreate_AsClaimed ==
    [][ (~Exists(file) /\ last'.op \in StoreOps) =>
        IF ~auto_create
        THEN last'.err = "FileNotFoundError" /\ file' = file
        ELSE Exists(file') ]_vars

====
